---- MODULE Spec2Model ----
(***************************************************************************)
(* StandX yield calculator (src/app.py).                                   *)
(*                                                                         *)
(* One script run of main(): render_sidebar, fetch_global_points,          *)
(* calculate_points, calculate_roi; the user's next interaction reruns the *)
(* script.  Units of the state:                                            *)
(*   points of the user          tenths of a point        (PointScale)     *)
(*   network points              whole points, truncated                   *)
(*   datetimes                   seconds since 1970-01-01 (naive)          *)
(*   FDV                         millions of dollars      (FdvUnit)        *)
(*   airdrop percentage          tenths of a percent      (PctScale)       *)
(* calculate_roi is carried out on exact ratios of integers (the floats of *)
(* the code round each step to 53 bits); what it returns is stored rounded *)
(* down to                                                                 *)
(*   projected_global            whole points                              *)
(*   my_share (a percentage)     10^-7 percent            (ShareScale)     *)
(*   est_value, net_profit       cents                    (CentScale)      *)
(*   roi, apy                    hundredths of a percent  (PercentScale)   *)
(***************************************************************************)
EXTENDS Integers, Sequences, FiniteSets

VARIABLES pc, capital, days, is_active, fdv, airdrop_pct,
          cache, response, current_global_points,
          current_date, my_points, daily_breakdown, metrics

vars == <<pc, capital, days, is_active, fdv, airdrop_pct,
          cache, response, current_global_points,
          current_date, my_points, daily_breakdown, metrics>>

---------------------------------------------------------------------------
(* Bounds of the model *)

\* short durations 0..MaxDays are explored next to the default duration
MaxDays == 3
\* the ranking body holds at most MaxItems records
MaxItems == 2
\* 'now' ranges over the days cutoff-NowSpan .. cutoff+NowSpan
NowSpan == 1

---------------------------------------------------------------------------
(* Constants of the program *)

SecondsPerDay == 86400
\* datetime(2025, 12, 11), midnight, in seconds since 1970-01-01
BOOST_END_DATE == 20433 * SecondsPerDay
PointScale == 10
\* RATE_BOOST = 1.5, RATE_BASE = 1.2, in tenths
RATE_BOOST == 15
RATE_BASE == 12
\* BONUS_DAILY = 10 points
BONUS_DAILY == 10
\* DAILY_INFLATION = 0.015, in thousandths
DAILY_INFLATION == 15
InflationScale == 1000
\* return value of the except branches
FALLBACK_POINTS == 500000000
\* top_200_sum * 1.3, in tenths
TOTAL_FACTOR == 13
FactorScale == 10
\* widget defaults of render_sidebar
DefaultCapital == 10000
DefaultDays == 30
DefaultFdv == 1000
DefaultAirdropPct == 50
FdvUnit == 1000000
PctScale == 10
\* units of the stored metrics
ShareScale == 10000000
CentScale == 100
PercentScale == 100

---------------------------------------------------------------------------
(* Arithmetic: the products and quotients of the code, too long for the    *)
(* 32-bit integers of TLC, on naturals held as sequences of limbs  *)
(* of base LimbBase (lowest limb first, no zero limb on top; <<>> is 0)    *)

LimbBase == 1000
\* the largest k for which (k - 1) * LimbBase + LimbBase - 1 < 2^31
MaxDirect == 2147482
MaxInt == 2147483647

\* <<q, r>> plus e * a over c, for e in {0, 1} and 0 <= r < c
AddBit(q, r, e, a, c) ==
    IF e = 0 THEN <<q, r>>
    ELSE IF r >= c - (a % c)
        THEN <<q + (a \div c) + 1, r - (c - (a % c))>>
        ELSE <<q + (a \div c), r + (a % c)>>

RECURSIVE MulDivQR(_, _, _)
\* <<q, r>> with a * b = q * c + r and 0 <= r < c, for a, b >= 0 and c > 0:
\* binary long multiplication, the remainder doubled without overflow
MulDivQR(a, b, c) ==
    IF b = 0 THEN <<0, 0>>
    ELSE LET h == MulDivQR(a, b \div 2, c)
         IN  IF h[2] >= c - h[2]
                 THEN AddBit(2 * h[1] + 1, h[2] - (c - h[2]), b % 2, a, c)
                 ELSE AddBit(2 * h[1], h[2] + h[2], b % 2, a, c)

\* floor(a * b / c), the shorter operand taken as the multiplier
MulDiv(a, b, c) ==
    IF a = 0 \/ b = 0 THEN 0
    ELSE IF a < b THEN MulDivQR(b, a, c)[1]
    ELSE MulDivQR(a, b, c)[1]

Limb(n, i) == IF i >= 1 /\ i <= Len(n) THEN n[i] ELSE 0

\* n without the zero limbs on top
Trim(n) ==
    IF \A i \in 1..Len(n) : n[i] = 0 THEN <<>>
    ELSE SubSeq(n, 1, CHOOSE i \in 1..Len(n) :
                          n[i] # 0 /\ \A j \in (i + 1)..Len(n) : n[j] = 0)

RECURSIVE MulRange(_, _, _, _, _, _, _)
\* limbs lo..hi of n * (k2 * LimbBase^2 + k1 * LimbBase + k0) + carry, and
\* the carry out of limb hi: <<limbs, carry>>
MulRange(n, k0, k1, k2, lo, hi, carry) ==
    IF lo = hi
        THEN LET t == Limb(n, lo) * k0 + Limb(n, lo - 1) * k1
                          + Limb(n, lo - 2) * k2 + carry
             IN  <<<<t % LimbBase>>, t \div LimbBase>>
        ELSE LET mid  == (lo + hi) \div 2
                 low  == MulRange(n, k0, k1, k2, lo, mid, carry)
                 high == MulRange(n, k0, k1, k2, mid + 1, hi, low[2])
             IN  <<low[1] \o high[1], high[2]>>

\* n * k, for 0 <= k < 2^31
BigMulInt(n, k) ==
    IF k = 1 THEN n
    ELSE Trim(MulRange(n, k % LimbBase, (k \div LimbBase) % LimbBase,
                       k \div (LimbBase * LimbBase), 1, Len(n) + 4, 0)[1])

\* <<q, r>> with rem * LimbBase + limb = q * k + r, for rem < k
DivStep(rem, limb, k) ==
    IF k <= MaxDirect
        THEN <<(rem * LimbBase + limb) \div k, (rem * LimbBase + limb) % k>>
        ELSE LET h == MulDivQR(rem, LimbBase, k)
             IN  IF h[2] >= k - limb
                     THEN <<h[1] + 1, h[2] - (k - limb)>>
                     ELSE <<h[1], h[2] + limb>>

RECURSIVE DivRange(_, _, _, _, _)
\* long division of limbs hi..lo of n by k, rem the remainder of the limbs
\* above hi: <<limbs lo..hi of the quotient, remainder>>
DivRange(n, k, lo, hi, rem) ==
    IF lo = hi
        THEN LET qr == DivStep(rem, n[lo], k) IN <<<<qr[1]>>, qr[2]>>
        ELSE LET mid  == (lo + hi) \div 2
                 high == DivRange(n, k, mid + 1, hi, rem)
                 low  == DivRange(n, k, lo, mid, high[2])
             IN  IF high[2] < 0 THEN high ELSE <<low[1] \o high[1], low[2]>>

\* floor(n / k), for 0 < k < 2^31 - LimbBase
BigDivInt(n, k) ==
    IF n = <<>> \/ k = 1 THEN n
    ELSE Trim(DivRange(n, k, 1, Len(n), 0)[1])

\* n * LimbBase^by, rounded down when by < 0
Shift(n, by) ==
    IF by >= 0 THEN (IF n = <<>> THEN n ELSE [i \in 1..by |-> 0] \o n)
    ELSE IF -by >= Len(n) THEN <<>>
    ELSE SubSeq(n, 1 - by, Len(n))

\* n as a 32-bit integer; what does not fit reads as MaxInt
BigToInt(n) ==
    IF Len(n) > 4 \/ Limb(n, 4) >= 2 THEN MaxInt
    ELSE Limb(n, 1) + LimbBase * Limb(n, 2) + LimbBase * LimbBase * Limb(n, 3)
             + LimbBase * LimbBase * LimbBase * Limb(n, 4)

RECURSIVE MulAll(_, _, _, _)
\* n * ks[lo] * ... * ks[hi]
MulAll(n, ks, lo, hi) ==
    IF lo > hi THEN n
    ELSE IF lo = hi THEN BigMulInt(n, ks[lo])
    ELSE LET m == MulAll(n, ks, lo, (lo + hi) \div 2)
         IN  IF Len(m) < 0 THEN m ELSE MulAll(m, ks, (lo + hi) \div 2 + 1, hi)

RECURSIVE DivAll(_, _, _, _)
\* floor(n / (ks[lo] * ... * ks[hi])): floor(floor(x / a) / b) = floor(x / (a * b))
DivAll(n, ks, lo, hi) ==
    IF lo > hi THEN n
    ELSE IF lo = hi THEN BigDivInt(n, ks[lo])
    ELSE LET m == DivAll(n, ks, lo, (lo + hi) \div 2)
         IN  IF Len(m) < 0 THEN m ELSE DivAll(m, ks, (lo + hi) \div 2 + 1, hi)

\* A number of calculate_roi, exactly: the product of the naturals num over
\* the product of the positive naturals den.
Ratio(ns, ds) == [num |-> ns, den |-> ds]
Zero == Ratio(<<0>>, <<>>)
OfInt(k) == Ratio(<<k>>, <<>>)
IsZero(x) == \E i \in 1..Len(x.num) : x.num[i] = 0
\* x * y
Mul(x, y) == Ratio(x.num \o y.num, x.den \o y.den)
\* x / y, for y > 0
Div(x, y) == Ratio(x.num \o y.den, x.den \o y.num)
\* x ** d, for a natural d
Power(x, d) ==
    Ratio([i \in 1..(d * Len(x.num)) |-> x.num[((i - 1) % Len(x.num)) + 1]],
          [i \in 1..(d * Len(x.den)) |-> x.den[((i - 1) % Len(x.den)) + 1]])

\* the factors of ks two by two, where the product of the two stays within
\* limit (the second of the two becomes 1)
Pack(ks, limit) ==
    [i \in 1..Len(ks) |->
        IF i % 2 = 1
            THEN IF i < Len(ks) /\ ks[i] <= limit \div ks[i + 1]
                     THEN ks[i] * ks[i + 1] ELSE ks[i]
            ELSE IF ks[i - 1] <= limit \div ks[i] THEN 1 ELSE ks[i]]

\* every factor k that is a multiple of LimbBase as k / LimbBase, LimbBase
Unfold(ks) ==
    [i \in 1..(2 * Len(ks)) |->
        LET k == ks[(i + 1) \div 2]
        IN  IF k % LimbBase = 0
                THEN (IF i % 2 = 1 THEN k \div LimbBase ELSE LimbBase)
                ELSE (IF i % 2 = 1 THEN k ELSE 1)]

IsShift(k) == k = LimbBase
Small(k) == k # LimbBase /\ k # 1 /\ k <= MaxDirect
Large(k) == k > MaxDirect

\* floor(x * scale): the numerator multiplied out, then divided by the
\* factors of the denominator one after the other
Floor(x, scale) ==
    IF IsZero(x) THEN 0
    ELSE LET nums == Unfold(Unfold(Unfold(Append(x.num, scale))))
             dens == Unfold(Unfold(Unfold(x.den)))
             muls == Pack(SelectSeq(nums, Small), MaxDirect) \o SelectSeq(nums, Large)
             divs == Pack(SelectSeq(dens, Small), MaxDirect) \o SelectSeq(dens, Large)
             m    == Shift(MulAll(<<1>>, muls, 1, Len(muls)),
                           Len(SelectSeq(nums, IsShift)) - Len(SelectSeq(dens, IsShift)))
         IN  IF Len(m) < 0 THEN 0 ELSE BigToInt(DivAll(m, divs, 1, Len(divs)))

---------------------------------------------------------------------------
(* fetch_global_points: the remote ranking endpoint and the cached fetch *)

\* One record of the `data` list.  is_object: the item is a JSON object (has
\* .get); has_points: it carries a "points" key; numeric: float() accepts the
\* value; points: the value, in units of 1_000_000 raw points.
Item(o, h, n, p) == [is_object |-> o, has_points |-> h, numeric |-> n, points |-> p]

Items ==
             {Item(TRUE, TRUE, TRUE, 100000000),  \* {"points": "100000000000000"}
              Item(TRUE, FALSE, FALSE, 0),     \* {"rank": 1}
              Item(TRUE, TRUE, FALSE, 0),      \* {"points": null}
              Item(FALSE, FALSE, FALSE, 0)}    \* "abc"

RECURSIVE SeqsUpTo(_, _)
SeqsUpTo(S, n) ==
    IF n = 0 THEN {<<>>}
    ELSE LET shorter == SeqsUpTo(S, n - 1)
         IN  shorter \cup {Append(q, x) : q \in shorter, x \in S}

\* A response body.  kind "text": not parseable as JSON; "array": JSON whose
\* top level is not an object (no .get); "object": a JSON object, with or
\* without a "data" key.  data_kind says what the value of "data" is:
\*   "list"    a list of items (data)
\*   "empty"   another value that iterates over nothing: {} or ""
\*   "strings" a non-empty string or object: iterating it gives strings (data)
\*   "scalar"  null, a number or a boolean: not iterable
Body(k, h, l, d) == [kind |-> k, has_data |-> h, data_kind |-> l, data |-> d]

NoBody == Body("text", FALSE, "list", <<>>)

Bodies ==
    {NoBody,
     Body("array", FALSE, "list", <<>>),
     Body("object", FALSE, "list", <<>>),
     Body("object", TRUE, "empty", <<>>),
     Body("object", TRUE, "strings", <<Item(FALSE, FALSE, FALSE, 0)>>),
     Body("object", TRUE, "scalar", <<>>)}
        \cup {Body("object", TRUE, "list", d) : d \in SeqsUpTo(Items, MaxItems)}

Statuses == {200, 300, 404, 503}

\* kind "none": no request was made; "timeout": requests.exceptions.Timeout;
\* "connection": any other exception of requests.get; "http": an answer.
NoResponse == [kind |-> "none", status |-> 0, body |-> NoBody]

Responses ==
    {[kind |-> k, status |-> 0, body |-> NoBody] :
        k \in {"timeout", "connection"}}
        \cup {[kind |-> "http", status |-> s, body |-> b] : s \in Statuses, b \in Bodies}

\* only client errors raise
RaisesForStatusClientOnly(status) == status >= 400 /\ status < 500

\* response.raise_for_status(): HTTPError for a 4xx or 5xx status
RaisesForStatus(status) == status >= 400 /\ status < 600

\* float(item.get("points", 0)) / 1_000_000: <<raised, value>>
ItemPoints(item) ==
    IF ~item.is_object THEN <<TRUE, 0>>
    ELSE IF ~item.has_points THEN <<FALSE, 0>>
    ELSE IF ~item.numeric THEN <<TRUE, 0>>
    ELSE <<FALSE, item.points>>

RECURSIVE SumPoints(_)
\* sum(... for item in data): <<raised, top_200_sum>>
SumPoints(data) ==
    IF data = <<>> THEN <<FALSE, 0>>
    ELSE LET first == ItemPoints(Head(data))
             rest  == SumPoints(Tail(data))
         IN  IF first[1] \/ rest[1] THEN <<TRUE, 0>>
             ELSE <<FALSE, first[2] + rest[2]>>

\* data = response.json().get("data", []) and `for item in data`:
\* <<raised, the items iterated over>>.  json() raises on text, .get is
\* missing on a top level that is not an object, a scalar is not iterable;
\* a missing key gives the default [], and {} and "" iterate over nothing.
JsonData(body) ==
    IF body.kind # "object" THEN <<TRUE, <<>>>>
    ELSE IF ~body.has_data THEN <<FALSE, <<>>>>
    ELSE IF body.data_kind = "scalar" THEN <<TRUE, <<>>>>
    ELSE IF body.data_kind = "empty" THEN <<FALSE, <<>>>>
    ELSE <<FALSE, body.data>>

\* estimated_total = top_200_sum * 1.3
EstimatedTotal(top_200_sum) == MulDiv(top_200_sum, TOTAL_FACTOR, FactorScale)

\* the body of fetch_global_points, given what requests.get did
FetchResult(r) ==
    IF r.kind # "http" THEN FALLBACK_POINTS
    ELSE IF RaisesForStatus(r.status) THEN FALLBACK_POINTS
    ELSE LET data == JsonData(r.body)
             sum  == SumPoints(data[2])
         IN  IF data[1] \/ sum[1] THEN FALLBACK_POINTS
             ELSE EstimatedTotal(sum[2])

---------------------------------------------------------------------------
(* calculate_points *)

\* current_date + timedelta(days=day)
DayDate(now, day) == now + day * SecondsPerDay

\* the comparison swapped: boosted from the cutoff on
InBoostReversed(day_date) == day_date >= BOOST_END_DATE

\* if day_date <= BOOST_END_DATE:
InBoost(day_date) == day_date <= BOOST_END_DATE

\* rate = RATE_BOOST / rate = RATE_BASE
Rate(day_date) == IF InBoost(day_date) THEN RATE_BOOST ELSE RATE_BASE

\* period label: "boost" is the boosted phase, "base" the base phase
Period(day_date) == IF InBoost(day_date) THEN "boost" ELSE "base"

\* the bonus added to the capital before the rate is applied
DailyPointsScaledBonus(cap, rate, active) ==
    (cap + (IF active THEN BONUS_DAILY ELSE 0)) * rate

\* daily_points = capital * rate; if is_active: daily_points += BONUS_DAILY
DailyPoints(cap, rate, active) ==
    cap * rate + (IF active THEN BONUS_DAILY * PointScale ELSE 0)

\* the day's points recorded instead of the running total
AddPointsNoCarry(total_points, daily_points) == daily_points

\* total_points += daily_points
AddPoints(total_points, daily_points) == total_points + daily_points

\* the loop index itself, 0-based
DayNumberZeroBased(day) == day

\* the "day" field of the record appended for loop index day
DayNumber(day) == day + 1

\* one pass of the loop body: the record appended for loop index `day`
DailyRecord(cap, active, now, day, total_points) ==
    LET day_date     == DayDate(now, day)
        rate         == Rate(day_date)
        daily_points == DailyPoints(cap, rate, active)
    IN  [day          |-> DayNumber(day),
         date         |-> day_date,
         rate         |-> rate,
         period       |-> Period(day_date),
         daily_points |-> daily_points,
         total_points |-> AddPoints(total_points, daily_points)]

RECURSIVE PointsLoop(_, _, _, _, _, _, _)
\* for day in range(days): ...
PointsLoop(cap, n, active, now, day, total_points, breakdown) ==
    IF day >= n THEN [total_points |-> total_points, daily_breakdown |-> breakdown]
    ELSE LET rec == DailyRecord(cap, active, now, day, total_points)
         IN  PointsLoop(cap, n, active, now, day + 1,
                        rec.total_points, Append(breakdown, rec))

CalculatePoints(cap, n, active, now) == PointsLoop(cap, n, active, now, 0, 0, <<>>)

---------------------------------------------------------------------------
(* calculate_roi *)

\* (1 + DAILY_INFLATION) ** duration_days
Growth(d) == Power(Ratio(<<InflationScale + DAILY_INFLATION>>, <<InflationScale>>), d)

\* projected_global = current_global_points * ((1 + DAILY_INFLATION) ** duration_days)
ProjectedGlobal(global_points, d) == Mul(OfInt(global_points), Growth(d))

\* the guard returns the points themselves instead of 0
MyShareUnguarded(points, projected_global) ==
    IF ~IsZero(projected_global) THEN Div(points, projected_global) ELSE points

\* my_share = my_points / projected_global if projected_global > 0 else 0
MyShare(points, projected_global) ==
    IF ~IsZero(projected_global) THEN Div(points, projected_global) ELSE Zero

\* the FDV left out: the default FDV is used for every call
EstValueFixedFdv(f, pct, my_share) ==
    Mul(Mul(Ratio(<<DefaultFdv, FdvUnit>>, <<>>), Ratio(<<pct>>, <<PctScale, 100>>)), my_share)

\* est_value = fdv * (airdrop_pct / 100) * my_share
EstValue(f, pct, my_share) ==
    Mul(Mul(Ratio(<<f, FdvUnit>>, <<>>), Ratio(<<pct>>, <<PctScale, 100>>)), my_share)

\* the conversion to a percentage left out
RoiFraction(est_value, cap) ==
    IF cap > 0 THEN Div(est_value, OfInt(cap)) ELSE Zero

\* roi = (est_value / capital * 100) if capital > 0 else 0
Roi(est_value, cap) ==
    IF cap > 0 THEN Mul(Div(est_value, OfInt(cap)), OfInt(100)) ELSE Zero

\* apy = (roi / duration_days * 365) if duration_days > 0 else 0
Apy(roi, d) ==
    IF d > 0 THEN Mul(Div(roi, OfInt(d)), OfInt(365)) ELSE Zero

\* the dictionary calculate_roi returns, exactly; points in tenths
CalculateRoi(points, d, cap, f, pct, global_points) ==
    LET projected_global == ProjectedGlobal(global_points, d)
        my_share         == MyShare(Ratio(<<points>>, <<PointScale>>), projected_global)
        est_value        == EstValue(f, pct, my_share)
        net_profit       == est_value
        roi              == Roi(est_value, cap)
        apy              == Apy(roi, d)
    IN  [est_value        |-> est_value,
         net_profit       |-> net_profit,
         roi              |-> roi,
         apy              |-> apy,
         my_share         |-> Mul(my_share, OfInt(100)),
         projected_global |-> projected_global]

\* the returned dictionary in the units of the state, each value rounded down
InUnits(m) ==
    [est_value        |-> Floor(m.est_value, CentScale),
     net_profit       |-> Floor(m.net_profit, CentScale),
     roi              |-> Floor(m.roi, PercentScale),
     apy              |-> Floor(m.apy, PercentScale),
     my_share         |-> Floor(m.my_share, ShareScale),
     projected_global |-> Floor(m.projected_global, 1)]

NoMetrics ==
    [est_value |-> 0, net_profit |-> 0, roi |-> 0, apy |-> 0,
     my_share |-> 0, projected_global |-> 0]

---------------------------------------------------------------------------
(* Inputs *)

\* number_input: 100 .. 1_000_000
SidebarCapitals == {100, DefaultCapital}
\* slider: 1 .. 90; the values picked after the first run, which has the default
SidebarDays == 1..MaxDays
\* select_slider options, in millions of dollars
FdvOptions == {DefaultFdv, 3000}
\* slider 1.0 .. 10.0 step 0.5, in tenths of a percent
AirdropPcts == {DefaultAirdropPct, 100}

\* datetime.now(): a day around the cutoff, or early enough for the default
\* duration to end before it or on it, at midnight or at noon
TimesOfDay == {0, 43200}
NowDays == (-NowSpan..NowSpan) \cup {-(DefaultDays + NowSpan), -(DefaultDays - 1)}
Nows == {BOOST_END_DATE + d * SecondsPerDay + t : d \in NowDays, t \in TimesOfDay}

---------------------------------------------------------------------------
(* main(): one script run, and the rerun on the next interaction *)

NoCache == [valid |-> FALSE, value |-> 0]

Init ==
    /\ pc = "sidebar"
    /\ capital = DefaultCapital
    /\ days = DefaultDays
    /\ is_active = FALSE
    /\ fdv = DefaultFdv
    /\ airdrop_pct = DefaultAirdropPct
    /\ cache = NoCache
    /\ response = NoResponse
    /\ current_global_points = 0
    /\ current_date = 0
    /\ my_points = 0
    /\ daily_breakdown = <<>>
    /\ metrics = NoMetrics

\* capital, days, is_active, fdv, airdrop_pct = render_sidebar()
RenderSidebar ==
    /\ pc = "sidebar"
    /\ pc' = "fetch"
    /\ UNCHANGED <<capital, days, is_active, fdv, airdrop_pct, cache, response,
                   current_global_points, current_date, my_points,
                   daily_breakdown, metrics>>

\* fetch_global_points() answered from st.cache_data: an entry younger than
\* ttl=300 exists, the body does not run and no request is made
FetchCached ==
    /\ pc = "fetch"
    /\ cache.valid
    /\ current_global_points' = cache.value
    /\ response' = NoResponse
    /\ pc' = "points"
    /\ UNCHANGED <<capital, days, is_active, fdv, airdrop_pct, cache,
                   current_date, my_points, daily_breakdown, metrics>>

\* fetch_global_points() run (no entry, or the entry is older than ttl=300):
\* the request is made and the returned value cached
FetchRemote ==
    /\ pc = "fetch"
    /\ \E r \in Responses :
          /\ response' = r
          /\ current_global_points' = FetchResult(r)
          /\ cache' = [valid |-> TRUE, value |-> FetchResult(r)]
    /\ pc' = "points"
    /\ UNCHANGED <<capital, days, is_active, fdv, airdrop_pct,
                   current_date, my_points, daily_breakdown, metrics>>

\* my_points, daily_breakdown = calculate_points(capital, days, is_active);
\* the response, a local of fetch_global_points, is gone by now
CalcPoints ==
    /\ pc = "points"
    /\ \E now \in Nows :
          LET res == CalculatePoints(capital, days, is_active, now)
          IN  /\ current_date' = now
              /\ my_points' = res.total_points
              /\ daily_breakdown' = res.daily_breakdown
    /\ response' = NoResponse
    /\ pc' = "roi"
    /\ UNCHANGED <<capital, days, is_active, fdv, airdrop_pct, cache,
                   current_global_points, metrics>>

\* metrics = calculate_roi(my_points, days, capital, fdv, airdrop_pct,
\*                         current_global_points)
CalcRoi ==
    /\ pc = "roi"
    /\ metrics' = InUnits(CalculateRoi(my_points, days, capital, fdv, airdrop_pct,
                                       current_global_points))
    /\ pc' = "done"
    /\ UNCHANGED <<capital, days, is_active, fdv, airdrop_pct, cache, response,
                   current_global_points, current_date, my_points,
                   daily_breakdown>>

\* the user changes a widget: the script runs again from the top
Rerun ==
    /\ pc = "done"
    /\ capital' \in SidebarCapitals
    /\ days' \in SidebarDays
    /\ is_active' \in BOOLEAN
    /\ fdv' \in FdvOptions
    /\ airdrop_pct' \in AirdropPcts
    /\ pc' = "sidebar"
    /\ response' = NoResponse
    /\ current_global_points' = 0
    /\ current_date' = 0
    /\ my_points' = 0
    /\ daily_breakdown' = <<>>
    /\ metrics' = NoMetrics
    /\ UNCHANGED cache

Next ==
    \/ RenderSidebar
    \/ FetchCached
    \/ FetchRemote
    \/ CalcPoints
    \/ CalcRoi
    \/ Rerun

Spec == Init /\ [][Next]_vars

---------------------------------------------------------------------------
(* calculate_points and calculate_roi called on their own *)

PointsCapitals == {0, 100, DefaultCapital}
Durations == (0..MaxDays) \cup {DefaultDays}

InitPoints ==
    /\ pc = "points"
    /\ capital \in PointsCapitals
    /\ days \in Durations
    /\ is_active \in BOOLEAN
    /\ fdv = DefaultFdv
    /\ airdrop_pct = DefaultAirdropPct
    /\ cache = NoCache
    /\ response = NoResponse
    /\ current_global_points = 0
    /\ current_date = 0
    /\ my_points = 0
    /\ daily_breakdown = <<>>
    /\ metrics = NoMetrics

SpecPoints == InitPoints /\ [][CalcPoints]_vars

\* my_points in tenths of a point
RoiPoints == {0, 1500, 450000}
RoiCapitals == {0, 1000, DefaultCapital}
RoiFdvs == {100, 250, DefaultFdv, 3000}
RoiPcts == {10, DefaultAirdropPct, 100}
RoiGlobals == {0, 130000000, FALLBACK_POINTS}

InitRoi ==
    /\ pc = "roi"
    /\ my_points \in RoiPoints
    /\ days \in Durations
    /\ capital \in RoiCapitals
    /\ fdv \in RoiFdvs
    /\ airdrop_pct \in RoiPcts
    /\ current_global_points \in RoiGlobals
    /\ is_active = FALSE
    /\ cache = NoCache
    /\ response = NoResponse
    /\ current_date = 0
    /\ daily_breakdown = <<>>
    /\ metrics = NoMetrics

SpecRoi == InitRoi /\ [][CalcRoi]_vars

---------------------------------------------------------------------------
(* Properties *)

\* the calendar date of a datetime, as a day number
DateOf(t) == t \div SecondsPerDay

\* calculate_points has returned
PointsReturned == pc \in {"roi", "done"}

\* the rate a day gets when the boost runs through the whole cutoff date
RateByDate(date) ==
    IF date <= DateOf(BOOST_END_DATE) THEN RATE_BOOST ELSE RATE_BASE

\* C1: every day of the schedule whose calendar date (today + day offset) is
\* on or before the cutoff date 2025-12-11 carries the boosted rate, whatever
\* the time of day of 'now', and every later day the base rate.
C1_BoostThroughCutoffDate ==
    PointsReturned =>
        \A k \in 1..Len(daily_breakdown) :
            daily_breakdown[k].rate = RateByDate(DateOf(current_date) + (k - 1))

\* the body is a JSON object holding a `data` list of records that each carry
\* a `points` field
WellFormedBody(b) ==
    /\ b.kind = "object"
    /\ b.has_data
    /\ b.data_kind = "list"
    /\ \A i \in 1..Len(b.data) : b.data[i].is_object /\ b.data[i].has_points

\* C2: when the endpoint answers with a body that is not a JSON object
\* holding a `data` list of records each carrying `points`,
\* fetch_global_points returns the fallback constant.
C2_MalformedBodyFallsBack ==
    (pc = "points" /\ response.kind = "http" /\ ~WellFormedBody(response.body))
        => current_global_points = FALLBACK_POINTS

\* C3 as stated: after a timeout, an answer whose status is not 2xx, or an
\* answer whose body is not parseable JSON, fetch_global_points returns the
\* fallback constant.
C3_EveryFailureFallsBack ==
    (/\ pc = "points"
     /\ \/ response.kind = "timeout"
        \/ /\ response.kind = "http"
           /\ \/ response.status < 200
              \/ response.status > 299
              \/ response.body.kind = "text")
        => current_global_points = FALLBACK_POINTS

\* C3: after a timeout or any other exception of the request, an answer with
\* a 4xx or 5xx status, or an answer whose body is not parseable JSON,
\* fetch_global_points returns the fallback constant (it always returns).
C3_ErrorFallsBack ==
    (/\ pc = "points"
     /\ \/ response.kind \in {"timeout", "connection"}
        \/ /\ response.kind = "http"
           /\ \/ (response.status >= 400 /\ response.status <= 599)
              \/ response.body.kind = "text")
        => current_global_points = FALLBACK_POINTS

\* a 503 answer whose body is a well-formed, non-empty ranking
C3_Witness ==
    /\ pc = "points"
    /\ response.kind = "http"
    /\ response.status = 503
    /\ WellFormedBody(response.body)
    /\ Len(response.body.data) > 0
    /\ current_global_points = FALLBACK_POINTS

Within(x, target, tolerance) == x >= target - tolerance /\ x <= target + tolerance

\* the run of main() with the defaults of the widgets and the fallback estimate
Scenario ==
    /\ pc = "done"
    /\ capital = DefaultCapital
    /\ days = DefaultDays
    /\ ~is_active
    /\ fdv = DefaultFdv
    /\ airdrop_pct = DefaultAirdropPct
    /\ current_global_points = FALLBACK_POINTS

\* C4 as stated: capital 10,000, 30 days, no bonus, all days on or before the
\* cutoff date, 500,000,000 network points, FDV 1e9, 5 percent: total 450,000,
\* estimated value about $29,050, ROI about 0.29%, APY about 3.53% (each
\* within 5 percent).
C4_ScenarioAsStated ==
    (/\ Scenario
     /\ \A k \in 1..Len(daily_breakdown) :
            DateOf(daily_breakdown[k].date) <= DateOf(BOOST_END_DATE))
        => /\ my_points = 450000 * PointScale
           /\ Within(metrics.est_value, 2905000, 145250)
           /\ Within(metrics.roi, 29, 2)
           /\ Within(metrics.apy, 353, 18)

\* C4: in that scenario with all 30 days before the cutoff date, the total is
\* 450,000 points, the projected network total about 781,540,110, the
\* estimated value about $28,789.31, the ROI about 287.89% and the APY about
\* 3502.7%.
C4_Scenario ==
    (/\ Scenario
     /\ \A k \in 1..Len(daily_breakdown) :
            DateOf(daily_breakdown[k].date) < DateOf(BOOST_END_DATE))
        => /\ my_points = 450000 * PointScale
           /\ Within(metrics.projected_global, 781540110, 100)
           /\ Within(metrics.est_value, 2878931, 100)
           /\ Within(metrics.net_profit, 2878931, 100)
           /\ Within(metrics.roi, 28789, 1)
           /\ Within(metrics.apy, 350270, 10)

C4_Witness ==
    /\ Scenario
    /\ Len(daily_breakdown) = DefaultDays
    /\ DateOf(daily_breakdown[DefaultDays].date) < DateOf(BOOST_END_DATE)
    /\ metrics.est_value > 0

\* C5: the schedule has exactly `days` records, the k-th record has day
\* index k, and for 0 days the schedule is empty and the total 0.
C5_ScheduleLength ==
    PointsReturned =>
        /\ Len(daily_breakdown) = days
        /\ \A k \in 1..Len(daily_breakdown) : daily_breakdown[k].day = k
        /\ days = 0 => (daily_breakdown = <<>> /\ my_points = 0)

C5_Witness ==
    /\ PointsReturned
    /\ days = DefaultDays
    /\ Len(daily_breakdown) = DefaultDays
    /\ daily_breakdown[DefaultDays].day = DefaultDays

RECURSIVE SumDaily(_, _)
\* the per-day points of records 1..k, summed
SumDaily(breakdown, k) ==
    IF k = 0 THEN 0 ELSE SumDaily(breakdown, k - 1) + breakdown[k].daily_points

\* C6: the cumulative field of the k-th record is the sum of the per-day
\* points of records 1..k, it never decreases along the schedule, and the
\* returned total is the cumulative field of the last record.
C6_Cumulative ==
    PointsReturned =>
        /\ \A k \in 1..Len(daily_breakdown) :
              daily_breakdown[k].total_points = SumDaily(daily_breakdown, k)
        /\ \A k \in 2..Len(daily_breakdown) :
              daily_breakdown[k - 1].total_points <= daily_breakdown[k].total_points
        /\ Len(daily_breakdown) > 0 =>
              my_points = daily_breakdown[Len(daily_breakdown)].total_points

C6_Witness ==
    /\ PointsReturned
    /\ Len(daily_breakdown) = DefaultDays
    /\ daily_breakdown[1].total_points > 0
    /\ daily_breakdown[DefaultDays].total_points > daily_breakdown[1].total_points

\* C7: with the same capital, duration and current date, the run with the
\* bonus flag set has per-day points exactly BONUS_DAILY above the run with
\* the flag cleared, the same rate and the same capital * rate every day, and
\* a total higher by BONUS_DAILY * days.
C7_FlatBonus ==
    PointsReturned =>
        LET other == CalculatePoints(capital, days, ~is_active, current_date)
            on    == IF is_active THEN daily_breakdown ELSE other.daily_breakdown
            off   == IF is_active THEN other.daily_breakdown ELSE daily_breakdown
            total_on  == IF is_active THEN my_points ELSE other.total_points
            total_off == IF is_active THEN other.total_points ELSE my_points
        IN  /\ Len(on) = Len(off)
            /\ \A k \in 1..Len(on) :
                  /\ on[k].daily_points = off[k].daily_points + BONUS_DAILY * PointScale
                  /\ on[k].rate = off[k].rate
                  /\ off[k].daily_points = capital * off[k].rate
            /\ total_on = total_off + BONUS_DAILY * PointScale * Len(on)

C7_Witness ==
    /\ PointsReturned
    /\ is_active
    /\ capital > 0
    /\ Len(daily_breakdown) = DefaultDays
    /\ daily_breakdown[1].daily_points
           = capital * daily_breakdown[1].rate + BONUS_DAILY * PointScale

\* C8: when the current global points, and so the projected network total,
\* are 0, calculate_roi returns share, estimated value, net profit, ROI and
\* APY all 0.
C8_ZeroNetwork ==
    (pc = "done" /\ current_global_points = 0)
        => /\ metrics.projected_global = 0
           /\ metrics.my_share = 0
           /\ metrics.est_value = 0
           /\ metrics.net_profit = 0
           /\ metrics.roi = 0
           /\ metrics.apy = 0

C8_Witness ==
    /\ pc = "done"
    /\ current_global_points = 0
    /\ my_points > 0
    /\ capital > 0
    /\ days > 0
    /\ metrics.est_value = 0

\* the arguments of calculate_roi other than my_points and fdv are in the
\* ranges of the contract
InContract ==
    /\ days >= 1
    /\ capital > 0
    /\ airdrop_pct > 0
    /\ airdrop_pct <= 100 * PctScale
    /\ current_global_points > 0

\* a < b, for naturals held as limbs
BigLess(a, b) ==
    \/ Len(a) < Len(b)
    \/ /\ Len(a) = Len(b)
       /\ \E i \in 1..Len(a) :
              a[i] < b[i] /\ \A j \in (i + 1)..Len(a) : a[j] = b[j]

\* the factors of as that bs does not hold as well (the others become 1)
Surplus(as, bs) ==
    [i \in 1..Len(as) |->
        IF Cardinality({j \in 1..i : as[j] = as[i]})
               > Cardinality({j \in 1..Len(bs) : bs[j] = as[i]})
            THEN as[i] ELSE 1]

\* x < y, exactly: cross-multiplied, the factors common to both sides dropped
Less(x, y) ==
    IF IsZero(y) THEN FALSE
    ELSE IF IsZero(x) THEN TRUE
    ELSE LET left  == x.num \o y.den
             right == y.num \o x.den
             l == Surplus(left, right)
             r == Surplus(right, left)
         IN  BigLess(MulAll(<<1>>, l, 1, Len(l)), MulAll(<<1>>, r, 1, Len(r)))

\* what calculate_roi returns for the same arguments and a larger FDV is
\* strictly larger in estimated value and in ROI (as exact numbers), and
\* not smaller in the stored units
LargerFdvGivesMore ==
    LET here == CalculateRoi(my_points, days, capital, fdv, airdrop_pct,
                             current_global_points)
    IN  /\ metrics = InUnits(here)
        /\ \A f \in RoiFdvs :
              f > fdv =>
                  LET larger == CalculateRoi(my_points, days, capital, f, airdrop_pct,
                                             current_global_points)
                  IN  /\ Less(here.est_value, larger.est_value)
                      /\ Less(here.roi, larger.roi)
                      /\ Floor(larger.est_value, CentScale) >= metrics.est_value
                      /\ Floor(larger.roi, PercentScale) >= metrics.roi

\* C9 as stated: for any my_points, two calls that differ only in FDV, the
\* other arguments in the contract's ranges: the larger FDV gives a strictly
\* larger estimated value and ROI.
C9_FdvMonotoneAnyPoints ==
    (pc = "done" /\ InContract) => LargerFdvGivesMore

\* C9: the same for my_points > 0.
C9_FdvMonotone ==
    (pc = "done" /\ InContract /\ my_points > 0) => LargerFdvGivesMore

C9_Witness ==
    /\ pc = "done"
    /\ InContract
    /\ my_points > 0
    /\ fdv = DefaultFdv
    /\ metrics.est_value > 0
    /\ metrics.roi > 0

\* C10: along a schedule the rate never goes back up: after a record with
\* the base rate (base period) every later record has the base rate (base
\* period) too.
C10_RateNeverRises ==
    PointsReturned =>
        \A i \in 1..Len(daily_breakdown) :
            \A j \in i..Len(daily_breakdown) :
                /\ daily_breakdown[i].rate = RATE_BASE
                      => daily_breakdown[j].rate = RATE_BASE
                /\ daily_breakdown[i].period = "base"
                      => daily_breakdown[j].period = "base"

\* a schedule that starts boosted and ends at the base rate
C10_Witness ==
    /\ PointsReturned
    /\ Len(daily_breakdown) >= 2
    /\ daily_breakdown[1].rate = RATE_BOOST
    /\ daily_breakdown[Len(daily_breakdown)].rate = RATE_BASE

====
